---------------------------- MODULE Spec2Model ----------------------------
(***************************************************************************)
(* Weather backend (weather_backend/src/api/main.py): a FastAPI service    *)
(* that proxies the OpenWeatherMap current-weather API.                    *)
(*                                                                         *)
(* Python values are modelled as tagged records:                           *)
(*   [t |-> "null"]                 None / JSON null                       *)
(*   [t |-> "str",  s |-> <<c,..>>] a string, as its sequence of characters *)
(*   [t |-> "int",  c |-> n]        an int; c is the value in hundredths   *)
(*   [t |-> "float", c |-> n]       a finite float; c in hundredths        *)
(*   [t |-> "bigint"]               an int beyond the range of a double    *)
(*   [t |-> "inf"], [t |-> "nan"]   the floats json.loads reads from       *)
(*                                  Infinity / 1e999 and NaN               *)
(*   [t |-> "list", e |-> <<..>>]   a list                                 *)
(*   [t |-> "obj",  f |-> [k |-> v]] a dict with string keys               *)
(* The result of evaluating an expression is [ok |-> TRUE, v |-> value] or *)
(* [ok |-> FALSE, exc |-> "<exception class>"].                            *)
(***************************************************************************)
EXTENDS Integers, Sequences, FiniteSets, TLC

(***************************************************************************)
(* Bounds of the model.                                                    *)
(***************************************************************************)
\* number of /weather requests that may be in flight together (Spec)
NumRequests == 2
\* longest city string a client sends (SpecEndpoint)
MaxCityLen == 2

Requests == 1..NumRequests

(***************************************************************************)
(* Python values.                                                          *)
(***************************************************************************)
Null == [t |-> "null"]
StrV(s) == [t |-> "str", s |-> s]
IntV(n) == [t |-> "int", c |-> n * 100]
FloatV(hundredths) == [t |-> "float", c |-> hundredths]
BigInt == [t |-> "bigint"]
Inf == [t |-> "inf"]
NaN == [t |-> "nan"]
ListV(e) == [t |-> "list", e |-> e]
ObjV(f) == [t |-> "obj", f |-> f]

Ok(v) == [ok |-> TRUE, v |-> v]
Raise(exc) == [ok |-> FALSE, exc |-> exc]

\* Python truthiness, as used by `not api_key`, `not city`, `payload.city or ""`
Truthy(v) ==
    CASE v.t = "null" -> FALSE
      [] v.t = "str" -> Len(v.s) > 0
      [] v.t = "list" -> Len(v.e) > 0
      [] v.t = "obj" -> DOMAIN v.f # {}
      [] v.t \in {"int", "float"} -> v.c # 0
      [] OTHER -> TRUE

IsSpace(ch) == ch = " "

RECURSIVE LStrip(_)
LStrip(s) ==
    IF s = << >> THEN s
    ELSE IF IsSpace(Head(s)) THEN LStrip(Tail(s)) ELSE s

RECURSIVE RStrip(_)
RStrip(s) ==
    IF s = << >> THEN s
    ELSE IF IsSpace(s[Len(s)]) THEN RStrip(SubSeq(s, 1, Len(s) - 1)) ELSE s

\* str.strip()
Strip(s) == RStrip(LStrip(s))

(***************************************************************************)
(* Numeric literals in strings, for float(str) and int(str).               *)
(***************************************************************************)
DigitChars == {"0", "1", "2", "3", "4", "5", "6", "7", "8", "9"}

DigitVal(ch) ==
    CASE ch = "0" -> 0 [] ch = "1" -> 1 [] ch = "2" -> 2 [] ch = "3" -> 3
      [] ch = "4" -> 4 [] ch = "5" -> 5 [] ch = "6" -> 6 [] ch = "7" -> 7
      [] ch = "8" -> 8 [] ch = "9" -> 9

AllDigits(s) == \A i \in 1..Len(s) : s[i] \in DigitChars

RECURSIVE DigitsVal(_)
DigitsVal(s) ==
    IF s = << >> THEN 0
    ELSE DigitsVal(SubSeq(s, 1, Len(s) - 1)) * 10 + DigitVal(s[Len(s)])

\* the fraction digits of a literal, in hundredths (digits past the second
\* are below the model's resolution)
FracHundredths(s) ==
    IF Len(s) = 0 THEN 0
    ELSE IF Len(s) = 1 THEN DigitVal(s[1]) * 10
    ELSE DigitVal(s[1]) * 10 + DigitVal(s[2])

DotAt(s) == {i \in 1..Len(s) : s[i] = "."}

\* int("<s>"): surrounding whitespace is ignored, then decimal digits only
ParseInt(s) ==
    LET u == Strip(s) IN
    IF u # << >> /\ AllDigits(u) THEN Ok([t |-> "int", c |-> DigitsVal(u) * 100])
    ELSE Raise("ValueError")

\* float("<s>"): digits with at most one decimal point and at least one digit
ParseFloat(s) ==
    LET u == Strip(s)
        dots == DotAt(u)
    IN  IF u = << >> THEN Raise("ValueError")
        ELSE IF dots = {} THEN
            IF AllDigits(u) THEN Ok(FloatV(DigitsVal(u) * 100)) ELSE Raise("ValueError")
        ELSE IF Cardinality(dots) > 1 THEN Raise("ValueError")
        ELSE LET d == CHOOSE i \in dots : TRUE
                 ip == SubSeq(u, 1, d - 1)
                 fp == SubSeq(u, d + 1, Len(u))
             IN  IF AllDigits(ip) /\ AllDigits(fp) /\ Len(ip) + Len(fp) > 0
                 THEN Ok(FloatV(DigitsVal(ip) * 100 + FracHundredths(fp)))
                 ELSE Raise("ValueError")

RECURSIVE DecimalDigits(_)
DecimalDigits(n) ==
    LET last == <<CHOOSE ch \in DigitChars : DigitVal(ch) = n % 10>> IN
    IF n < 10 THEN last ELSE DecimalDigits(n \div 10) \o last

\* truncation toward zero of a value in hundredths
Trunc(c) == IF c >= 0 THEN (c \div 100) * 100 ELSE -(((-c) \div 100) * 100)

\* float(x)
PyFloat(v) ==
    CASE v.t = "float" -> Ok(v)
      [] v.t \in {"inf", "nan"} -> Ok(v)
      [] v.t = "int" -> Ok(FloatV(v.c))
      [] v.t = "bigint" -> Raise("OverflowError")
      [] v.t = "str" -> ParseFloat(v.s)
      [] OTHER -> Raise("TypeError")

\* int(x)
PyInt(v) ==
    CASE v.t \in {"int", "bigint"} -> Ok(v)
      [] v.t = "float" -> Ok([t |-> "int", c |-> Trunc(v.c)])
      [] v.t = "inf" -> Raise("OverflowError")
      [] v.t = "nan" -> Raise("ValueError")
      [] v.t = "str" -> ParseInt(v.s)
      [] OTHER -> Raise("TypeError")

\* str(x), for the values a description takes in this model
PyStr(v) ==
    CASE v.t = "str" -> Ok(v)
      [] v.t = "null" -> Ok(StrV(<<"N", "o", "n", "e">>))
      [] v.t = "int" /\ v.c >= 0 -> Ok(StrV(DecimalDigits(v.c \div 100)))
      [] OTHER -> Ok(StrV(<<"?">>))

\* x[key] with a string key
GetKey(v, key) ==
    CASE v.t = "obj" -> IF key \in DOMAIN v.f THEN Ok(v.f[key]) ELSE Raise("KeyError")
      [] OTHER -> Raise("TypeError")

\* x[i] with an integer index i >= 0 (Python counts from 0)
GetIndex(v, i) ==
    CASE v.t = "list" -> IF i + 1 \in 1..Len(v.e) THEN Ok(v.e[i + 1]) ELSE Raise("IndexError")
      [] v.t = "str" -> IF i + 1 \in 1..Len(v.s) THEN Ok(StrV(<<v.s[i + 1]>>)) ELSE Raise("IndexError")
      [] v.t = "obj" -> Raise("KeyError")
      [] OTHER -> Raise("TypeError")

\* the same on the result of a subexpression: an exception propagates
KeyOf(res, key) == IF res.ok THEN GetKey(res.v, key) ELSE res
IndexOf(res, i) == IF res.ok THEN GetIndex(res.v, i) ELSE res
FloatOf(res) == IF res.ok THEN PyFloat(res.v) ELSE res
IntOf(res) == IF res.ok THEN PyInt(res.v) ELSE res
StrOf(res) == IF res.ok THEN PyStr(res.v) ELSE res

(***************************************************************************)
(* What a path operation ends with, and the HTTP response made of it.      *)
(***************************************************************************)
\* an error message: its text, and the values formatted into it
Detail(text) == [text |-> text, args |-> << >>]

HTTPException(status_code, detail) ==
    [kind |-> "http_exception", status_code |-> status_code, detail |-> detail]
Returned(value) == [kind |-> "return", value |-> value]
\* an exception no handler of the application catches
Unhandled(exc) == [kind |-> "unhandled", exc |-> exc]

\* FastAPI / Starlette turn the end of a path operation into a response:
\* the returned model as JSON, an HTTPException as {"detail": ...}, any other
\* exception as a plain 500
ToHttp(outcome) ==
    CASE outcome.kind = "return" -> [status |-> 200, body |-> outcome.value]
      [] outcome.kind = "http_exception" ->
            [status |-> outcome.status_code, body |-> [detail |-> outcome.detail]]
      [] OTHER -> [status |-> 500, body |-> [text |-> "Internal Server Error"]]

\* the response to a request whose parameters fail FastAPI's validation
ValidationFailed(loc) ==
    [status |-> 422, body |-> [detail |-> [text |-> "RequestValidationError", args |-> loc]]]

(***************************************************************************)
(* WeatherResponse and _normalize_openweather_payload                      *)
(***************************************************************************)
\* WeatherResponse(city=..., ...): pydantic validates the fields; temperature,
\* humidity and description are a float, an int and a str by construction,
\* city is whatever payload["name"] was
WeatherResponse(city, temperature, humidity, description) ==
    IF city.t = "str"
    THEN Returned([city |-> city, temperature |-> temperature,
                   humidity |-> humidity, description |-> description])
    ELSE Unhandled("ValidationError")

ExtractCity(payload) == GetKey(payload, "name")

ExtractTemperature(payload) == FloatOf(KeyOf(GetKey(payload, "main"), "temp"))

\* ExtractHumidity with a defect: the humidity is read from main.temp
ExtractHumidityFromTemp(payload) == IntOf(KeyOf(GetKey(payload, "main"), "temp"))

ExtractHumidity(payload) == IntOf(KeyOf(GetKey(payload, "main"), "humidity"))

ExtractDescription(payload) ==
    StrOf(KeyOf(IndexOf(GetKey(payload, "weather"), 0), "description"))

\* except (KeyError, IndexError, TypeError, ValueError)
CaughtByNormalizer == {"KeyError", "IndexError", "TypeError", "ValueError"}

UnexpectedFormat ==
    HTTPException(502, Detail("Upstream response format from OpenWeatherMap was unexpected."))

\* _normalize_openweather_payload: the four extractions run in order and the
\* first exception ends the try block
NormalizeOpenweatherPayload(payload) ==
    LET city == ExtractCity(payload)
        temperature == ExtractTemperature(payload)
        humidity == ExtractHumidity(payload)
        description == ExtractDescription(payload)
        steps == <<city, temperature, humidity, description>>
        failed == {i \in 1..4 : ~steps[i].ok}
    IN  IF failed # {}
        THEN LET first == CHOOSE i \in failed : \A j \in failed : i <= j
                 exc == steps[first].exc
             IN  IF exc \in CaughtByNormalizer THEN UnexpectedFormat ELSE Unhandled(exc)
        ELSE WeatherResponse(city.v, temperature.v, humidity.v, description.v)

(***************************************************************************)
(* _fetch_current_weather                                                  *)
(***************************************************************************)
\* params = {"q": city, "appid": api_key, "units": "metric"}
FetchParams(city, api_key) == [q |-> city, appid |-> api_key, units |-> "metric"]

\* IsNotFound with a defect: the 404 test is missing
NeverNotFound(status_code) == FALSE

\* resp.status_code == 404
IsNotFound(status_code) == status_code = 404

\* IsErrorStatus with a defect: only 5xx counts as an upstream error
IsServerErrorOnly(status_code) == status_code >= 500

\* resp.status_code >= 400
IsErrorStatus(status_code) == status_code >= 400

UpstreamStatusDetail(status_code) ==
    [text |-> "OpenWeatherMap returned an error (status {resp.status_code}).",
     args |-> <<status_code>>]

\* resp.json(): the parsed body, or ValueError
ResponseJson(body) == IF body.json THEN Ok(body.val) ELSE Raise("ValueError")

\* The part of _fetch_current_weather after `await client.get(...)`: what it
\* ends with, and which of resp.json() and the normalizer it ran.
AfterGet(reply) ==
    IF reply.kind = "request_error"
    THEN [outcome |-> HTTPException(502, Detail("Failed to reach OpenWeatherMap.")),
          ran |-> << >>]
    ELSE IF IsNotFound(reply.status_code)
    THEN [outcome |-> HTTPException(404, Detail("City not found.")), ran |-> << >>]
    ELSE IF IsErrorStatus(reply.status_code)
    THEN [outcome |-> HTTPException(502, UpstreamStatusDetail(reply.status_code)),
          ran |-> << >>]
    ELSE LET payload == ResponseJson(reply.body) IN
         IF ~payload.ok
         THEN [outcome |-> HTTPException(502, Detail("OpenWeatherMap returned invalid JSON.")),
               ran |-> <<"resp.json">>]
         ELSE [outcome |-> NormalizeOpenweatherPayload(payload.v),
               ran |-> <<"resp.json", "_normalize_openweather_payload">>]

(***************************************************************************)
(* The routes and the two /weather path operations, up to the upstream call *)
(***************************************************************************)
\* @app.get("/"), @app.get("/weather"), @app.post("/weather"); Starlette
\* answers 405 for a known path with another method and 404 for an unknown path
Route(method, path) ==
    CASE path = "/" /\ method = "GET" -> "health_check"
      [] path = "/weather" /\ method = "GET" -> "get_weather"
      [] path = "/weather" /\ method = "POST" -> "post_weather"
      [] path \in {"/", "/weather"} -> "405"
      [] OTHER -> "404"

\* a request parameter that was not sent
Absent == [t |-> "absent"]

\* city: str = Query(..., min_length=1) and city: str = Field(..., min_length=1):
\* required, a string, of at least one character
PassesMinLength(city) == city.t = "str" /\ Len(city.s) >= 1

ConfigMissing ==
    HTTPException(500, Detail("OPENWEATHER_API_KEY is not configured on the server."))

\* A path operation either ends before the upstream call or awaits it.
End(outcome) == [await |-> FALSE, outcome |-> outcome]
Await(params) == [await |-> TRUE, params |-> params]

\* get_weather(city), entered with the validated query parameter
GetWeatherBody(city, api_key) ==
    IF ~Truthy(api_key) THEN End(ConfigMissing)
    ELSE IF ~Truthy(city) \/ ~Truthy(StrV(Strip(city.s)))
    THEN End(HTTPException(400, Detail("Missing required parameter: city.")))
    ELSE Await(FetchParams(StrV(Strip(city.s)), api_key))

\* post_weather(payload), entered with the validated body
PostWeatherBody(payloadCity, api_key) ==
    IF ~Truthy(api_key) THEN End(ConfigMissing)
    ELSE LET city == StrV(Strip(IF Truthy(payloadCity) THEN payloadCity.s ELSE << >>)) IN
         IF ~Truthy(city)
         THEN End(HTTPException(400, Detail("Missing required field: city.")))
         ELSE Await(FetchParams(city, api_key))

\* HealthCheckBody with a defect: the message is another one
HealthCheckOther == [message |-> "OK"]

\* health_check()
HealthCheckBody == [message |-> "Healthy"]

(***************************************************************************)
(* The inputs: what clients send, what the process environment holds and   *)
(* what the upstream provider answers.                                     *)
(***************************************************************************)
\* os.getenv("OPENWEATHER_API_KEY"): unset, empty or a key
EnvValues == {Null, StrV(<< >>), StrV(<<"k">>)}

CityChars == {" ", "L"}

RECURSIVE SeqsUpTo(_, _)
SeqsUpTo(S, n) ==
    IF n = 0 THEN {<< >>}
    ELSE LET shorter == SeqsUpTo(S, n - 1) IN
         shorter \cup {Append(s, x) : s \in {t \in shorter : Len(t) = n - 1}, x \in S}

\* SpecEndpoint: every city string up to MaxCityLen, or no city parameter;
\* a JSON body may also hold "city": null
QueryCities == {Absent} \cup {StrV(s) : s \in SeqsUpTo(CityChars, MaxCityLen)}
BodyCities == QueryCities \cup {Null}

\* Spec: a missing, a blank, a plain and a padded city
SampleCities == {Absent, StrV(<<" ">>), StrV(<<"L">>), StrV(<<" ", "L", " ">>)}

Methods == {"GET", "POST"}
Paths == {"/", "/health", "/weather"}

London == StrV(<<"L", "o", "n", "d", "o", "n">>)
LightRain == StrV(<<"l", "i", "g", "h", "t", " ", "r", "a", "i", "n">>)

NoField == << >>
Opt(key, values) == {NoField} \cup {key :> v : v \in values}

NameValues == {London, Null, ListV(<< >>)}
TempValues ==
    {FloatV(1234), IntV(12), StrV(<<"1", "2", ".", "5">>), StrV(<<"x">>), Null, BigInt}
HumidityValues ==
    {IntV(81), FloatV(8150), StrV(<<"8", "1">>), StrV(<<"8", ".", "5">>), Null, Inf, NaN}
DescriptionValues == {LightRain, IntV(5), Null}

MainValues ==
    {Null, ListV(<< >>)}
    \cup {ObjV(t @@ h) : t \in Opt("temp", TempValues), h \in Opt("humidity", HumidityValues)}

WeatherValues ==
    {ListV(<< >>), ObjV(NoField), ListV(<<Null>>), StrV(<<"r">>)}
    \cup {ListV(<<ObjV(d)>>) : d \in Opt("description", DescriptionValues)}

\* every parsed body of SpecEndpoint
Payloads ==
    {Null, ListV(<< >>), StrV(<<"x">>)}
    \cup {ObjV(n @@ m @@ w) : n \in Opt("name", NameValues),
                              m \in Opt("main", MainValues),
                              w \in Opt("weather", WeatherValues)}

\* the payload of test_get_weather_success
LondonPayload ==
    ObjV([name |-> London,
          main |-> ObjV([temp |-> FloatV(1234), humidity |-> IntV(81)]),
          weather |-> ListV(<<ObjV([description |-> LightRain])>>)])

\* the same with "name": null
NullNamePayload ==
    ObjV([name |-> Null,
          main |-> ObjV([temp |-> FloatV(1234), humidity |-> IntV(81)]),
          weather |-> ListV(<<ObjV([description |-> LightRain])>>)])

\* the body of test_city_not_found_returns_404
NotFoundPayload ==
    ObjV([cod |-> StrV(<<"4", "0", "4">>), message |-> StrV(<<"?">>)])

InvalidJson == [json |-> FALSE]
Json(v) == [json |-> TRUE, val |-> v]

RequestError(exc) == [kind |-> "request_error", exc |-> exc]
Response(status_code, body) ==
    [kind |-> "response", status_code |-> status_code, body |-> body]

\* httpx.ConnectError and httpx.ReadTimeout are httpx.RequestError
TransportFailures == {RequestError("ConnectError"), RequestError("ReadTimeout")}
NonErrorStatuses == {200, 204}
ErrorStatuses == {400, 401, 404, 500, 503}
SampleBodies == {InvalidJson, Json(LondonPayload), Json(NotFoundPayload)}

EndpointReplies ==
    TransportFailures
    \cup {Response(st, b) : st \in NonErrorStatuses,
                            b \in {InvalidJson} \cup {Json(p) : p \in Payloads}}
    \cup {Response(st, b) : st \in ErrorStatuses, b \in SampleBodies}

SampleReplies ==
    {RequestError("ConnectError"),
     Response(404, Json(NotFoundPayload)),
     Response(500, InvalidJson),
     Response(200, Json(LondonPayload)),
     Response(200, Json(NullNamePayload))}

(***************************************************************************)
(* The state.                                                              *)
(***************************************************************************)
VARIABLES
    env,        \* the process environment's OPENWEATHER_API_KEY
    pc,         \* per request: "idle", "awaiting" (inside client.get), "done"
    request,    \* per request: what the client sent
    api_key,    \* per request: the handler's local api_key
    calls,      \* per request: the parameters of its outbound calls, in order
    upstream,   \* per request: what the provider answered to its call
    ran,        \* per request: the parsing steps run after the answer
    responses   \* per request: the HTTP responses sent to the client, in order

vars == <<env, pc, request, api_key, calls, upstream, ran, responses>>

NoRequest == [method |-> "", path |-> "", city |-> Absent]
NotRead == [t |-> "notread"]
NoReply == [kind |-> "none"]

Init ==
    /\ env \in EnvValues
    /\ pc = [r \in Requests |-> "idle"]
    /\ request = [r \in Requests |-> NoRequest]
    /\ api_key = [r \in Requests |-> NotRead]
    /\ calls = [r \in Requests |-> << >>]
    /\ upstream = [r \in Requests |-> NoReply]
    /\ ran = [r \in Requests |-> << >>]
    /\ responses = [r \in Requests |-> << >>]

\* IssueCall with a defect: the call is sent a second time (a retry)
IssueCallTwice(history, params) == Append(Append(history, params), params)

\* client.get(OPENWEATHER_CURRENT_URL, params=params)
IssueCall(history, params) == Append(history, params)

\* AwaitGet with a defect: an answer some other request received is reused
\* (a shared cache)
AwaitGetCached(r, reply) ==
    LET others == {o \in Requests \ {r} : upstream[o] # NoReply} IN
    IF others # {} THEN upstream[CHOOSE o \in others : TRUE] ELSE reply

\* resp = await client.get(...), on a client this request created
AwaitGet(r, reply) == reply

\* the request ends: its response is sent
Finish(r, response) ==
    /\ pc' = [pc EXCEPT ![r] = "done"]
    /\ responses' = [responses EXCEPT ![r] = Append(@, response)]

\* A /weather request: FastAPI validates the city parameter, and only then
\* runs the path operation, which reads the environment and either ends or
\* sends the upstream call and awaits its answer.
Weather(r, method, city, step) ==
    /\ pc[r] = "idle"
    /\ request' = [request EXCEPT ![r] = [method |-> method, path |-> "/weather", city |-> city]]
    /\ UNCHANGED <<env, upstream, ran>>
    /\ IF ~PassesMinLength(city)
       THEN /\ Finish(r, ValidationFailed(<<"city">>))
            /\ UNCHANGED <<api_key, calls>>
       ELSE /\ api_key' = [api_key EXCEPT ![r] = env]
            /\ IF step.await
               THEN /\ calls' = [calls EXCEPT ![r] = IssueCall(@, step.params)]
                    /\ pc' = [pc EXCEPT ![r] = "awaiting"]
                    /\ UNCHANGED responses
               ELSE /\ Finish(r, ToHttp(step.outcome))
                    /\ UNCHANGED calls

\* GET /weather?city=...
GetWeather(r, city) ==
    /\ Route("GET", "/weather") = "get_weather"
    /\ Weather(r, "GET", city, GetWeatherBody(city, env))

\* POST /weather {"city": ...}
PostWeather(r, city) ==
    /\ Route("POST", "/weather") = "post_weather"
    /\ Weather(r, "POST", city, PostWeatherBody(city, env))

\* GET /
HealthCheck(r) ==
    /\ pc[r] = "idle"
    /\ Route("GET", "/") = "health_check"
    /\ request' = [request EXCEPT ![r] = [method |-> "GET", path |-> "/", city |-> Absent]]
    /\ Finish(r, ToHttp(Returned(HealthCheckBody)))
    /\ UNCHANGED <<env, api_key, calls, upstream, ran>>

\* a request no route serves
NoRoute(r, method, path) ==
    /\ pc[r] = "idle"
    /\ Route(method, path) \in {"404", "405"}
    /\ request' = [request EXCEPT ![r] = [method |-> method, path |-> path, city |-> Absent]]
    /\ Finish(r, IF Route(method, path) = "404"
                 THEN [status |-> 404, body |-> [detail |-> Detail("Not Found")]]
                 ELSE [status |-> 405, body |-> [detail |-> Detail("Method Not Allowed")]])
    /\ UNCHANGED <<env, api_key, calls, upstream, ran>>

\* the provider answers (or the transport fails) and _fetch_current_weather
\* runs to its end
UpstreamReply(r, reply) ==
    /\ pc[r] = "awaiting"
    /\ upstream' = [upstream EXCEPT ![r] = reply]
    /\ LET result == AfterGet(AwaitGet(r, reply)) IN
        /\ ran' = [ran EXCEPT ![r] = result.ran]
        /\ Finish(r, ToHttp(result.outcome))
    /\ UNCHANGED <<env, request, api_key, calls>>

\* the environment variable is set, emptied or removed (as the tests'
\* monkeypatch.setenv / delenv and teardown_module do)
SetEnv(v) ==
    /\ v # env
    /\ env' = v
    /\ UNCHANGED <<pc, request, api_key, calls, upstream, ran, responses>>

\* Concurrent /weather requests under a changing environment.
Next ==
    \/ \E r \in Requests, city \in SampleCities : GetWeather(r, city)
    \/ \E r \in Requests, city \in SampleCities : PostWeather(r, city)
    \/ \E r \in Requests : pc[r] = "awaiting" /\ \E reply \in SampleReplies : UpstreamReply(r, reply)
    \/ \E v \in EnvValues : SetEnv(v)

Spec == Init /\ [][Next]_vars

\* client.get runs under timeout=10.0: an awaited call always ends, with a
\* response or with a transport failure.
Fairness ==
    \A r \in Requests :
        WF_vars(pc[r] = "awaiting" /\ \E reply \in SampleReplies : UpstreamReply(r, reply))

SpecLive == Spec /\ Fairness

\* One request against every route, city and upstream answer.
NextEndpoint ==
    \/ \E city \in QueryCities : GetWeather(1, city)
    \/ \E city \in BodyCities : PostWeather(1, city)
    \/ HealthCheck(1)
    \/ \E method \in Methods, path \in Paths : NoRoute(1, method, path)
    \/ pc[1] = "awaiting" /\ \E reply \in EndpointReplies : UpstreamReply(1, reply)

SpecEndpoint == Init /\ [][NextEndpoint]_vars

(***************************************************************************)
(* Vocabulary of the properties, stated without the program's operators.   *)
(***************************************************************************)
Done(r) == pc[r] = "done"
Sent(r) == responses[r][1]
IsWeather(r) == request[r].path = "/weather" /\ request[r].method \in Methods

Blank(s) == \A i \in 1..Len(s) : s[i] = " "
NonBlankCity(r) == request[r].city.t = "str" /\ ~Blank(request[r].city.s)
BlankCity(r) == request[r].city.t = "str" /\ Blank(request[r].city.s)

\* t is s without its leading and trailing spaces
IsTrimOf(t, s) ==
    /\ t = << >> \/ (t[1] # " " /\ t[Len(t)] # " ")
    /\ \E a \in 0..Len(s) :
        /\ a + Len(t) <= Len(s)
        /\ \A i \in 1..Len(s) :
            IF i <= a \/ i > a + Len(t) THEN s[i] = " " ELSE s[i] = t[i - a]

Configured(key) == key.t = "str" /\ key.s # << >>

Has(v, key) == v.t = "obj" /\ key \in DOMAIN v.f

\* name, main.temp, main.humidity and weather[0].description are present
AllPresent(p) ==
    /\ Has(p, "name") /\ Has(p, "main") /\ Has(p, "weather")
    /\ Has(p.f.main, "temp") /\ Has(p.f.main, "humidity")
    /\ p.f.weather.t = "list" /\ Len(p.f.weather.e) >= 1
    /\ Has(p.f.weather.e[1], "description")

NameIn(p) == p.f.name
TempIn(p) == p.f.main.f.temp
HumidityIn(p) == p.f.main.f.humidity
DescriptionIn(p) == p.f.weather.e[1].f.description

\* the upstream payload of the data model: name a string, main.temp a
\* number, main.humidity an integer, weather[0].description a string
WellFormed(p) ==
    /\ AllPresent(p)
    /\ NameIn(p).t = "str"
    /\ TempIn(p).t \in {"int", "float"}
    /\ HumidityIn(p).t = "int"
    /\ DescriptionIn(p).t = "str"

NumericText(v) ==
    /\ v.t = "str" /\ v.s # << >>
    /\ \A i \in 1..Len(v.s) : v.s[i] \in DigitChars \cup {"."}

\* a field is missing, not of the data model's shape or type, or a number
\* field holds what no float (temp) or int (humidity) can be made of
Malformed(p) ==
    \/ ~AllPresent(p)
    \/ NameIn(p).t # "str"
    \/ DescriptionIn(p).t # "str"
    \/ ~(TempIn(p).t \in {"int", "float"} \/ NumericText(TempIn(p)))
    \/ ~(HumidityIn(p).t \in {"int", "float"} \/ NumericText(HumidityIn(p)))

\* the request was answered by the provider with a parsed, non-error body
Parsed(r) ==
    /\ upstream[r].kind = "response"
    /\ upstream[r].status_code < 400
    /\ upstream[r].body.json

ErrorWith(response, status, text) ==
    /\ response.status = status
    /\ "detail" \in DOMAIN response.body
    /\ response.body.detail.text = text

C2_BlankPostIs400 ==
    \A r \in Requests :
        (Done(r) /\ IsWeather(r) /\ request[r].method = "POST" /\ BlankCity(r))
        => \/ ErrorWith(Sent(r), 400, "Missing required field: city.")
           \/ ErrorWith(Sent(r), 400, "Missing required parameter: city.")

(***************************************************************************)
(* C3 (as claimed): with OPENWEATHER_API_KEY unset or empty, GET and POST  *)
(* /weather answer 500 naming OPENWEATHER_API_KEY for every city value,    *)
(* valid, blank or empty, and make no upstream call.                       *)
(***************************************************************************)
C3_MissingKeyIs500 ==
    \A r \in Requests :
        (Done(r) /\ IsWeather(r) /\ ~Configured(env))
        => /\ ErrorWith(Sent(r), 500, "OPENWEATHER_API_KEY is not configured on the server.")
           /\ calls[r] = << >>

(***************************************************************************)
(* C4 (as claimed): with the key configured, a GET /weather whose city is  *)
(* missing, empty or whitespace-only is answered 400 and makes no upstream *)
(* call.                                                                   *)
(***************************************************************************)
C4_BlankGetIs400 ==
    \A r \in Requests :
        (/\ Done(r) /\ IsWeather(r) /\ request[r].method = "GET" /\ Configured(env)
         /\ (request[r].city = Absent \/ BlankCity(r)))
        => Sent(r).status = 400 /\ calls[r] = << >>

(***************************************************************************)
(* C5: for a valid request, an upstream status 404 yields 404 with the     *)
(* message "City not found." whatever the upstream body, and the body is   *)
(* neither parsed nor normalized.                                          *)
(***************************************************************************)
C5_NotFound ==
    \A r \in Requests :
        (/\ Done(r) /\ IsWeather(r) /\ NonBlankCity(r) /\ Configured(api_key[r])
         /\ upstream[r].kind = "response" /\ upstream[r].status_code = 404)
        => /\ Sent(r) = [status |-> 404,
                         body |-> [detail |-> [text |-> "City not found.", args |-> << >>]]]
           /\ ran[r] = << >>

\* a 404 whose body is a well-formed weather payload was answered 404
C5_Witness ==
    \E r \in Requests :
        /\ Done(r) /\ upstream[r].kind = "response" /\ upstream[r].status_code = 404
        /\ upstream[r].body.json /\ WellFormed(upstream[r].body.val)
        /\ Sent(r).status = 404

(***************************************************************************)
(* C6: for a valid request, a transport failure, an upstream status >= 400 *)
(* other than 404 (the message then holds the observed status code) and a  *)
(* body that is not JSON are each answered 502.                            *)
(***************************************************************************)
C6_UpstreamFailureIs502 ==
    \A r \in Requests :
        (Done(r) /\ IsWeather(r) /\ NonBlankCity(r) /\ Configured(api_key[r]))
        => /\ upstream[r].kind = "request_error" => Sent(r).status = 502
           /\ (/\ upstream[r].kind = "response"
               /\ upstream[r].status_code >= 400 /\ upstream[r].status_code # 404)
              => /\ Sent(r).status = 502
                 /\ Sent(r).body.detail.args = <<upstream[r].status_code>>
           /\ (/\ upstream[r].kind = "response"
               /\ upstream[r].status_code < 400 /\ ~upstream[r].body.json)
              => Sent(r).status = 502

\* an upstream 400 carrying a well-formed payload was answered 502 (400)
C6_Witness ==
    \E r \in Requests :
        /\ Done(r) /\ upstream[r].kind = "response" /\ upstream[r].status_code = 400
        /\ upstream[r].body.json /\ WellFormed(upstream[r].body.val)
        /\ Sent(r).status = 502 /\ Sent(r).body.detail.args = <<400>>

(***************************************************************************)
(* C7 (as claimed): a parsed payload in which one of the four fields is    *)
(* missing, of the wrong shape or type, or not coercible to a number is    *)
(* answered 502 with the unexpected-format message, never 200 and never    *)
(* another status.                                                         *)
(***************************************************************************)
C7_MalformedIs502 ==
    \A r \in Requests :
        (Done(r) /\ IsWeather(r) /\ Parsed(r) /\ Malformed(upstream[r].body.val))
        => ErrorWith(Sent(r), 502,
                     "Upstream response format from OpenWeatherMap was unexpected.")

(***************************************************************************)
(* C8 (as claimed): GET /health always answers 200 {"message": "Healthy"}. *)
(***************************************************************************)
C8_HealthAtHealthPath ==
    \A r \in Requests :
        (Done(r) /\ request[r].method = "GET" /\ request[r].path = "/health")
        => Sent(r) = [status |-> 200, body |-> [message |-> "Healthy"]]

(***************************************************************************)
(* C8 (amended): the health endpoint is served at GET /: a GET to / always *)
(* answers 200 {"message": "Healthy"}, whatever the API key state, with no *)
(* upstream call.                                                          *)
(***************************************************************************)
C8_HealthAtRoot ==
    \A r \in Requests :
        (Done(r) /\ request[r].method = "GET" /\ request[r].path = "/")
        => /\ Sent(r) = [status |-> 200, body |-> [message |-> "Healthy"]]
           /\ calls[r] = << >>

\* GET / was answered while the API key is unset
C8_Witness ==
    \E r \in Requests :
        /\ Done(r) /\ request[r].method = "GET" /\ request[r].path = "/"
        /\ env = Null /\ Sent(r).status = 200

(***************************************************************************)
(* C9: every /weather request makes at most one upstream call and gets     *)
(* exactly one response: one call, with q the trimmed city, when the key   *)
(* is configured and the city non-blank; no call when it is rejected       *)
(* (400, or 500 for the missing key); no second call after a failure; a    *)
(* request that awaits the upstream call is eventually answered.           *)
(***************************************************************************)
SingleAttempt ==
    \A r \in Requests :
        LET accepted == pc[r] # "idle" /\ NonBlankCity(r) /\ Configured(api_key[r]) IN
        /\ Len(calls[r]) <= 1
        /\ Len(responses[r]) = (IF Done(r) THEN 1 ELSE 0)
        /\ accepted => /\ Len(calls[r]) = 1
                       /\ IsTrimOf(calls[r][1].q.s, request[r].city.s)
        /\ ~accepted => calls[r] = << >>
        /\ (Done(r) /\ Sent(r).status = 400) => calls[r] = << >>
        /\ (Done(r) /\ ErrorWith(Sent(r), 500,
                                 "OPENWEATHER_API_KEY is not configured on the server."))
           => calls[r] = << >>

C9_SingleAttempt ==
    /\ []SingleAttempt
    /\ \A r \in Requests : (pc[r] = "awaiting") ~> Done(r)

\* a request with a padded city ended on a transport failure after one call
C9_Witness ==
    \E r \in Requests :
        /\ Done(r) /\ request[r].city = StrV(<<" ", "L", " ">>)
        /\ upstream[r].kind = "request_error"
        /\ Len(calls[r]) = 1 /\ calls[r][1].q = StrV(<<"L">>)
        /\ Sent(r).status = 502

(***************************************************************************)
(* C10: under every interleaving of concurrent /weather requests, the      *)
(* response of each request is the one its own method and city, the API    *)
(* key it read at its start and the upstream answer to its own call        *)
(* determine: the response the request gets when it runs alone.            *)
(***************************************************************************)
Alone(req, key, reply) ==
    IF ~PassesMinLength(req.city) THEN ValidationFailed(<<"city">>)
    ELSE LET step == IF req.method = "GET" THEN GetWeatherBody(req.city, key)
                     ELSE PostWeatherBody(req.city, key)
         IN  IF step.await THEN ToHttp(AfterGet(reply).outcome) ELSE ToHttp(step.outcome)

C10_Independent ==
    \A r \in Requests :
        (Done(r) /\ IsWeather(r))
        => responses[r] = <<Alone(request[r], IF api_key[r] = NotRead THEN Null ELSE api_key[r],
                                  upstream[r])>>

\* two requests with the same city were both answered by the provider, with
\* different answers, and the environment no longer holds the key they read
C10_Witness ==
    \E r1, r2 \in Requests :
        /\ r1 # r2 /\ Done(r1) /\ Done(r2)
        /\ request[r1].city = request[r2].city
        /\ upstream[r1] # NoReply /\ upstream[r2] # NoReply
        /\ upstream[r1] # upstream[r2]
        /\ Sent(r1).status = 404 /\ Sent(r2).status = 200
        /\ env # api_key[r1]

=============================================================================
